---- MODULE Spec2Model ----
(***************************************************************************)
(* Bigram name generator (src/main.py): vocabulary build, bigram counting  *)
(* with '^' boundary padding, row normalisation, and the sampling walk.    *)
(*                                                                         *)
(* A float is modelled as an exact fraction <<num, den>>; <<0, 0>> is NaN  *)
(* (the result of 0/0) and <<n, 0>> with n > 0 is +inf.  Counts in the     *)
(* model stay far below 2^24, where int32 -> float32 conversion is exact,  *)
(* so .float() changes the dtype of bigram_counts and not its values.      *)
(***************************************************************************)
EXTENDS Integers, Sequences, FiniteSets, TLC

\* ---------------------------------------------------------------- bounds
\* A corpus has at most MaxTotal bigrams (sum over tokens of length + 1).
MaxTotal == 4
\* The model records the first MaxOut characters written to stdout.
MaxOut == 3

\* Characters a corpus line may contain.  '^' is an ordinary input character
\* as far as names.txt is concerned (no normalisation is performed).
Alphabet == {"a", "b", "^"}

\* Code point of a character: the order sorted() uses on one-character strings.
Ord(c) == CASE c = "^" -> 94 [] c = "a" -> 97 [] c = "b" -> 98

Tokens(n) == UNION {[1..k -> Alphabet] : k \in 0..n}

RECURSIVE CorporaUpTo(_)
CorporaUpTo(n) ==
    {<<>>} \cup UNION {{<<t>> \o c : c \in CorporaUpTo(n - Len(t) - 1)} : t \in Tokens(n - 1)}

\* Every value the list `words` can take within the bound.
Corpora == CorporaUpTo(MaxTotal)

\* Index range large enough for every vocabulary.
MaxIndices == 0..Cardinality(Alphabet)

\* ---------------------------------------------------------------- floats
NaN == <<0, 0>>
IsNaN(x) == x[1] = 0 /\ x[2] = 0
IsFinite(x) == x[2] > 0

\* int32 -> float32 of one element
ToFloat(n) == <<n, 1>>

\* tensor.float(): the matrix read as floats
AsFloats(m) == [i \in DOMAIN m |-> [j \in DOMAIN m[i] |-> ToFloat(m[i][j])]]

FAdd(x, y) ==
    IF IsNaN(x) \/ IsNaN(y) THEN NaN
    ELSE IF x[2] = 0 THEN x
    ELSE IF y[2] = 0 THEN y
    ELSE <<x[1] * y[2] + y[1] * x[2], x[2] * y[2]>>

\* Integer (floor) division: what the division would be without .float().
FDiv_truncating(x, y) ==
    IF IsNaN(x) \/ IsNaN(y) THEN NaN
    ELSE IF y[1] = 0 THEN (IF x[1] = 0 THEN NaN ELSE <<1, 0>>)
    ELSE <<(x[1] * y[2]) \div (x[2] * y[1]), 1>>

\* Float division x / y; 0/0 is NaN, c/0 is inf (no exception in torch).
FDiv(x, y) ==
    IF IsNaN(x) \/ IsNaN(y) THEN NaN
    ELSE IF y[1] = 0 THEN (IF x[1] = 0 THEN NaN ELSE <<1, 0>>)
    ELSE <<x[1] * y[2], x[2] * y[1]>>

FPositive(x) == ~IsNaN(x) /\ x[1] > 0

RECURSIVE FSumUpTo(_, _)
FSumUpTo(row, n) == IF n < 0 THEN ToFloat(0) ELSE FAdd(FSumUpTo(row, n - 1), row[n])

\* tensor.sum(1, keepdim=True)[i] for a row indexed 0..V-1
RowSum(row) == FSumUpTo(row, Cardinality(DOMAIN row) - 1)

\* ---------------------------------------------------------------- state
VARIABLES
    words,                      \* the lines of names.txt
    pc,                         \* "vocab", "count", "normalize", "sample", "done", "error"
    err,                        \* the exception that ended the run, "" if none
    characters,                 \* sorted unique characters
    vocab_size,
    stoi,
    itos,
    bigram_counts,              \* the values of the tensor bigram_counts
    bigram_counts_dtype,        \* its dtype: "int32", "float32" after .float()
    name_i,                     \* position of `name` in words (outer loop)
    pair_i,                     \* position of (ch1, ch2) in zip(padded_name, padded_name[1:])
    normalized_bigram_counts,
    sampled_index,
    output,                     \* characters written to stdout (first MaxOut)
    drawn                       \* history: indices returned by multinomial (first MaxOut + 1)

vars == <<words, pc, err, characters, vocab_size, stoi, itos, bigram_counts,
          bigram_counts_dtype, name_i, pair_i, normalized_bigram_counts, sampled_index, output, drawn>>

\* ---------------------------------------------------------------- vocabulary
RECURSIVE Flatten(_)
\* "".join(words)
Flatten(ws) == IF ws = <<>> THEN <<>> ELSE Head(ws) \o Flatten(Tail(ws))

SeqToSet(s) == {s[k] : k \in 1..Len(s)}

RECURSIVE sorted(_)
sorted(S) ==
    IF S = {} THEN <<>>
    ELSE LET m == CHOOSE x \in S : \A y \in S : Ord(x) <= Ord(y)
         IN <<m>> \o sorted(S \ {m})

\* { s: i+1 for i, s in enumerate(characters) }
Enumerated(chars) == [s \in SeqToSet(chars) |-> CHOOSE k \in 1..Len(chars) : chars[k] = s]

\* stoi after `stoi['^'] = 0`: the assignment adds the key or overwrites it.
MakeStoi(chars) ==
    LET base == Enumerated(chars)
    IN [s \in DOMAIN base \cup {"^"} |-> IF s = "^" THEN 0 ELSE base[s]]

\* { i: s for s, i in stoi.items() }  (stoi built here is injective, so no
\* key is written twice)
MakeItos(m) == [i \in {m[s] : s \in DOMAIN m} |-> CHOOSE s \in DOMAIN m : m[s] = i]

\* torch.zeros((V, V), dtype=torch.int32)
Zeros(V) == [i \in 0..V-1 |-> [j \in 0..V-1 |-> 0]]

\* ---------------------------------------------------------------- counting
\* ['^'] + list(name) + ['^']
padded_name(name) == <<"^">> \o name \o <<"^">>

\* The increment with row and column exchanged.
Increment_swapped(counts, ix1, ix2) ==
    [counts EXCEPT ![ix2][ix1] = counts[ix2][ix1] + 1]

\* bigram_counts[ix1][ix2] += 1
Increment(counts, ix1, ix2) ==
    [counts EXCEPT ![ix1][ix2] = counts[ix1][ix2] + 1]

\* ---------------------------------------------------------------- normalisation
\* Add-one smoothing before the division.
NormalizeRows_smoothed(fc) ==
    [i \in DOMAIN fc |->
        LET row == [j \in DOMAIN fc[i] |-> FAdd(fc[i][j], ToFloat(1))]
        IN [j \in DOMAIN row |-> FDiv(row[j], RowSum(row))]]

\* bigram_counts / bigram_counts.sum(1, keepdim=True)
NormalizeRows(fc) ==
    [i \in DOMAIN fc |-> [j \in DOMAIN fc[i] |-> FDiv(fc[i][j], RowSum(fc[i]))]]

\* ---------------------------------------------------------------- sampling
\* torch.multinomial rejects a weight vector holding nan/inf/negative entries
\* or summing to zero (RuntimeError).
InvalidDistribution(probs) ==
    \/ \E j \in DOMAIN probs : ~IsFinite(probs[j])
    \/ \A j \in DOMAIN probs : ~FPositive(probs[j])

IsEndSymbol_wrongchar(ix) == itos[ix] = "$"

\* itos[sampled_index] == '^'
IsEndSymbol(ix) == itos[ix] = "^"

\* The character written before the end-of-name test is made.
Printed_beforecheck(ix) == <<itos[ix]>>

\* What one iteration writes for drawn index ix, the line break aside:
\* nothing for the end symbol, else print(itos[ix], end="").
Printed(ix) == IF IsEndSymbol(ix) THEN <<>> ELSE <<itos[ix]>>

\* The stdout window after writing the characters of s.
Emit(o, s) == IF s # <<>> /\ Len(o) < MaxOut THEN o \o s ELSE o

Record(d, ix) == IF Len(d) < MaxOut + 1 THEN Append(d, ix) ELSE d

\* ---------------------------------------------------------------- actions
Init ==
    /\ words \in Corpora
    /\ pc = "vocab"
    /\ err = ""
    /\ characters = <<>>
    /\ vocab_size = 0
    /\ stoi = <<>>
    /\ itos = <<>>
    /\ bigram_counts = <<>>
    /\ bigram_counts_dtype = ""
    /\ name_i = 1
    /\ pair_i = 1
    /\ normalized_bigram_counts = <<>>
    /\ sampled_index = 0
    /\ output = <<>>
    /\ drawn = <<>>

\* Lines 29-44: characters, vocab_size, bigram_counts, stoi, itos.
BuildVocabulary ==
    /\ pc = "vocab"
    /\ characters' = sorted(SeqToSet(Flatten(words)))
    /\ vocab_size' = Len(characters') + 1
    /\ bigram_counts' = Zeros(vocab_size')
    /\ bigram_counts_dtype' = "int32"
    /\ stoi' = MakeStoi(characters')
    /\ itos' = MakeItos(stoi')
    /\ name_i' = 1
    /\ pair_i' = 1
    /\ pc' = IF Len(words) = 0 THEN "normalize" ELSE "count"
    /\ UNCHANGED <<words, err, normalized_bigram_counts, sampled_index, output, drawn>>

\* Lines 50-55: one iteration of the inner loop, and the loops' advance.
CountBigram ==
    /\ pc = "count"
    /\ LET p   == padded_name(words[name_i])
           ix1 == stoi[p[pair_i]]
           ix2 == stoi[p[pair_i + 1]]
           lastPair == pair_i + 1 >= Len(p)
       IN /\ bigram_counts' = Increment(bigram_counts, ix1, ix2)
          /\ pair_i' = IF lastPair THEN 1 ELSE pair_i + 1
          /\ name_i' = IF lastPair THEN name_i + 1 ELSE name_i
          /\ pc' = IF lastPair /\ name_i = Len(words) THEN "normalize" ELSE "count"
    /\ UNCHANGED <<words, err, characters, vocab_size, stoi, itos, bigram_counts_dtype,
                   normalized_bigram_counts, sampled_index, output, drawn>>

\* Lines 73-79.
Normalize ==
    /\ pc = "normalize"
    /\ bigram_counts_dtype' = "float32"
    /\ normalized_bigram_counts' = NormalizeRows(AsFloats(bigram_counts))
    /\ sampled_index' = 0
    /\ pc' = "sample"
    /\ UNCHANGED <<words, err, characters, vocab_size, stoi, itos, bigram_counts,
                   name_i, pair_i, output, drawn>>

\* Lines 81-93: one iteration of the while loop in which multinomial, reading
\* the row of sampled_index, returns j.
Draw(j) ==
    /\ pc = "sample"
    /\ LET probs == normalized_bigram_counts[sampled_index]
       IN /\ ~InvalidDistribution(probs)
          /\ j \in DOMAIN probs
          /\ FPositive(probs[j])
    /\ sampled_index' = j
    /\ drawn' = Record(drawn, j)
    /\ IF j \notin DOMAIN itos
       THEN pc' = "error" /\ err' = "KeyError" /\ output' = output
       ELSE /\ pc' = IF IsEndSymbol(j) THEN "done" ELSE "sample"
            /\ err' = err
            /\ output' = Emit(output, Printed(j))
    /\ UNCHANGED <<words, characters, vocab_size, stoi, itos, bigram_counts,
                   bigram_counts_dtype, name_i, pair_i, normalized_bigram_counts>>

\* Line 85: multinomial raises on an invalid weight vector; nothing is printed.
MultinomialError ==
    /\ pc = "sample"
    /\ InvalidDistribution(normalized_bigram_counts[sampled_index])
    /\ pc' = "error"
    /\ err' = "RuntimeError"
    /\ UNCHANGED <<words, characters, vocab_size, stoi, itos, bigram_counts,
                   bigram_counts_dtype, name_i, pair_i, normalized_bigram_counts,
                   sampled_index, output, drawn>>

Next ==
    \/ BuildVocabulary
    \/ CountBigram
    \/ Normalize
    \/ \E j \in MaxIndices : Draw(j)
    \/ MultinomialError

Spec == Init /\ [][Next]_vars

\* The script runs to completion (weak fairness of every step); the random
\* draws are fair: an index that has positive probability infinitely often is
\* eventually drawn.  This is implied by fairness of every single outcome
\* (i, j) of every row i read infinitely often.
LiveSpec ==
    /\ Init
    /\ [][Next]_vars
    /\ WF_vars(Next)
    /\ \A j \in MaxIndices : SF_vars(Draw(j))

\* ---------------------------------------------------------------- properties
\* Helpers of the properties below; the corpus side is stated on `words`
\* directly, not through the operators the actions use.

CorpusChars == {words[n][k] : <<n, k>> \in {x \in (1..Len(words)) \X (1..MaxTotal) : x[2] <= Len(words[x[1]])}}

Indices == 0..vocab_size - 1

\* The padded sequence of token n: [boundary] + characters + [boundary].
PaddedToken(n) == <<"^">> \o words[n] \o <<"^">>

\* Positions (token, offset) of the consecutive pairs of the first `upto`
\* tokens whose indices are (i, j).
PairPositions(i, j, upto) ==
    {x \in (1..upto) \X (1..MaxTotal) :
        /\ x[2] <= Len(words[x[1]]) + 1
        /\ stoi[PaddedToken(x[1])[x[2]]] = i
        /\ stoi[PaddedToken(x[1])[x[2] + 1]] = j}

ExpectedCount(i, j) == Cardinality(PairPositions(i, j, Len(words)))

RECURSIVE IntSum(_, _)
\* f[0] + ... + f[n]
IntSum(f, n) == IF n < 0 THEN 0 ELSE f[n] + IntSum(f, n - 1)

RowTotal(m, i) == IntSum(m[i], vocab_size - 1)
ColTotal(m, j) == IntSum([i \in Indices |-> m[i][j]], vocab_size - 1)
GrandTotal(m) == IntSum([i \in Indices |-> RowTotal(m, i)], vocab_size - 1)

RatEq(x, y) == x[1] * y[2] = y[1] * x[2]

VocabularyBuilt == pc # "vocab"
TablesBuilt == pc \in {"sample", "done"} \/ (pc = "error" /\ err \in {"RuntimeError", "KeyError"})

\* C1: for every non-empty corpus, stoi is a bijection from the symbol set
\* (unique corpus characters plus the boundary symbol) onto 0..V-1 with
\* V = |unique corpus characters| + 1, itos is its inverse, and the boundary
\* symbol maps to index 0, which no corpus character shares.
C1_VocabularyBijection ==
    (VocabularyBuilt /\ Len(words) > 0) =>
        /\ vocab_size = Cardinality(CorpusChars) + 1
        /\ DOMAIN stoi = CorpusChars \cup {"^"}
        /\ \A s \in DOMAIN stoi, t \in DOMAIN stoi : stoi[s] = stoi[t] => s = t
        /\ {stoi[s] : s \in DOMAIN stoi} = Indices
        /\ DOMAIN itos = Indices
        /\ \A s \in DOMAIN stoi : itos[stoi[s]] = s
        /\ stoi["^"] = 0

\* C2: when the counting loop has ended, cell (i, j) of the Frequency Table is
\* the number of consecutive pairs with indices (i, j) over all padded
\* tokens; the corpus ["ab"] gives boundary->a, a->b, b->boundary once each
\* and nothing else, the corpus [""] gives boundary->boundary once and
\* nothing else, and no exception was raised.
C2_FrequencyTableCounts ==
    pc = "normalize" =>
        /\ err = ""
        /\ DOMAIN bigram_counts = Indices
        /\ \A i \in Indices :
              /\ DOMAIN bigram_counts[i] = Indices
              /\ \A j \in Indices : bigram_counts[i][j] = ExpectedCount(i, j)
        /\ words = << <<"a", "b">> >> =>
              /\ vocab_size = 3 /\ stoi["a"] = 1 /\ stoi["b"] = 2
              /\ \A i \in 0..2, j \in 0..2 :
                    bigram_counts[i][j] =
                        IF <<i, j>> \in {<<0, 1>>, <<1, 2>>, <<2, 0>>} THEN 1 ELSE 0
        /\ words = << <<>> >> =>
              /\ vocab_size = 1
              /\ bigram_counts[0][0] = 1

C2_Witness ==
    /\ pc = "normalize"
    /\ Len(words) > 0
    /\ \E i \in Indices, j \in Indices : bigram_counts[i][j] >= 2

\* C3: for every row i of the Frequency Table with row-sum > 0, each entry
\* (i, j) of the Probability Table is count[i][j] / row-sum (not truncated),
\* lies in [0, 1], and the row sums to 1.
C3_RowsNormalized ==
    TablesBuilt =>
        \A i \in Indices :
            LET total == IntSum([j \in Indices |-> ExpectedCount(i, j)], vocab_size - 1)
            IN total > 0 =>
                /\ \A j \in Indices :
                      LET p == normalized_bigram_counts[i][j]
                      IN /\ IsFinite(p)
                         /\ RatEq(p, <<ExpectedCount(i, j), total>>)
                         /\ bigram_counts[i][j] = ExpectedCount(i, j)
                         /\ 0 <= p[1] /\ p[1] <= p[2]
                /\ RatEq(RowSum(normalized_bigram_counts[i]), <<1, 1>>)

C3_Witness ==
    /\ TablesBuilt
    /\ \E i \in Indices, j \in Indices :
          LET p == normalized_bigram_counts[i][j]
          IN IsFinite(p) /\ 0 < p[1] /\ p[1] < p[2]

\* C4: with a corpus of zero tokens the run fails with EmptyCorpusError at the
\* Vocabulary build: no table is built, the Sampler is not started, nothing
\* is written.
C4_EmptyCorpusFailsFast ==
    Len(words) = 0 =>
        /\ pc \in {"vocab", "error"}
        /\ pc = "error" => err = "EmptyCorpusError"
        /\ bigram_counts_dtype = ""
        /\ normalized_bigram_counts = <<>>
        /\ output = <<>>

\* C5: when a row of the Frequency Table has row-sum 0, the Probability Table
\* build fails with ZeroRowError or makes that row uniform: a finished build
\* holds no undefined (0/0) row and the Sampler reads none.
C5_ZeroRowSurfaced ==
    TablesBuilt =>
        \A i \in Indices :
            RowTotal(bigram_counts, i) = 0 =>
                \A j \in Indices : RatEq(normalized_bigram_counts[i][j], <<1, vocab_size>>)
                                   /\ IsFinite(normalized_bigram_counts[i][j])

RECURSIVE BackReach(_, _)
\* Indices from which the set B is reached within n positive-probability steps.
BackReach(B, n) ==
    IF n = 0 THEN B
    ELSE BackReach(B \cup {i \in Indices :
                              \E j \in B : FPositive(normalized_bigram_counts[i][j])},
                   n - 1)

\* C6: for every non-empty corpus the walk started at the boundary index
\* terminates: from every state it reaches, the boundary index is reachable
\* by positive-count transitions, and under fair draws the boundary index is
\* eventually drawn and the loop exits.
C6_SamplerTerminates ==
    /\ [](Len(words) > 0 /\ pc = "sample" =>
             /\ sampled_index \in BackReach({0}, vocab_size)
             /\ ~InvalidDistribution(normalized_bigram_counts[sampled_index]))
    /\ [](Len(words) > 0 => <>(pc = "done" /\ err = ""))

C6_Witness ==
    /\ pc = "done"
    /\ Len(drawn) = MaxOut + 1
    /\ \E k \in 1..Len(drawn) : \E l \in 1..Len(drawn) : k < l /\ drawn[k] = drawn[l]

\* The indices drawn that are not the boundary index, in draw order.
NonBoundaryDrawn == SelectSeq(drawn, LAMBDA x : x # 0)

\* C7: no character written to the output is the boundary symbol; a
\* character is written only for a drawn index other than 0, a drawn 0 ends
\* the walk without being written, and the output is the non-boundary
\* symbols drawn, in draw order.
C7_OutputExcludesBoundary ==
    /\ \A k \in 1..Len(output) : output[k] # "^"
    /\ Len(output) = IF Len(NonBoundaryDrawn) < MaxOut THEN Len(NonBoundaryDrawn) ELSE MaxOut
    /\ \A k \in 1..Len(output) : output[k] = itos[NonBoundaryDrawn[k]]
    /\ \A k \in 1..Len(drawn) - 1 : drawn[k] # 0
    /\ pc = "done" => sampled_index = 0
    /\ (pc = "sample" /\ drawn # <<>>) => sampled_index # 0

C7_Witness ==
    /\ pc = "done"
    /\ Len(output) >= 2
    /\ drawn[Len(drawn)] = 0

\* The row the k-th draw was made from.
DrawnFrom(k) == IF k = 1 THEN 0 ELSE drawn[k - 1]

AllMassOnBoundary(i) ==
    /\ ExpectedCount(i, 0) >= 1
    /\ \A j \in Indices : j # 0 => ExpectedCount(i, j) = 0

\* C9: every step of the walk follows an observed bigram: a move from i to
\* drawn j has count[i][j] >= 1 in the Frequency Table of the corpus, the
\* first draw and the final boundary draw included; from a row with all its
\* mass on the boundary column the next draw is the boundary, which ends the
\* walk with nothing more written.
C9_WalkFollowsObservedBigrams ==
    \A k \in 1..Len(drawn) :
        /\ drawn[k] \in Indices
        /\ ExpectedCount(DrawnFrom(k), drawn[k]) >= 1
        /\ AllMassOnBoundary(DrawnFrom(k)) =>
              /\ drawn[k] = 0
              /\ k = Len(drawn)
              /\ pc = "done"
              /\ Len(output) = k - 1

C9_Witness ==
    /\ pc = "done"
    /\ Len(drawn) >= 2
    /\ AllMassOnBoundary(DrawnFrom(Len(drawn)))
    /\ drawn[Len(drawn)] = 0

\* C10: after any number of complete tokens the Frequency Table is balanced:
\* row k and column k have the same sum for every k, the boundary row and
\* the boundary column sum to the number of tokens processed, and all cells
\* sum to the sum of (token length + 1) over the tokens processed.
C10_FrequencyTableBalanced ==
    (pc \in {"count", "normalize"} /\ pair_i = 1) =>
        LET done == IF Len(words) = 0 THEN 0 ELSE name_i - 1
        IN /\ \A k \in Indices : RowTotal(bigram_counts, k) = ColTotal(bigram_counts, k)
           /\ RowTotal(bigram_counts, 0) = done
           /\ ColTotal(bigram_counts, 0) = done
           /\ GrandTotal(bigram_counts) =
                 IntSum([n \in 0..done |-> IF n = 0 THEN 0 ELSE Len(words[n]) + 1], done)

====
